---- MODULE Spec2Model ----
(***************************************************************************)
(* Model of the Telco churn ELT pipeline.                                  *)
(*                                                                         *)
(*   Part I  : the Airflow DAG of dags/telco_churn_elt.py, its eight       *)
(*             PythonOperator tasks, their /tmp parquet files and XComs.   *)
(*   Part II : the cleaning function clean_data of                         *)
(*             src/transform/transform_data.py on bounded record sets.     *)
(*   Part III: add_engineered_features and create_churn_insights of        *)
(*             src/transform/create_insights.py and the four projections   *)
(*             of transform_data.py on cleaned record sets.                *)
(*   Part IV : task_load_warehouse with the loaders of                     *)
(*             src/load/load_to_warehouse.py and insert_dataframe of       *)
(*             src/utils/db_client.py.                                     *)
(***************************************************************************)
EXTENDS Integers, Sequences, FiniteSets, TLC

VARIABLES
    state,      \* task id -> state of the task instance in this DAG run
    tries,      \* task id -> number of execution attempts started so far
    pc,         \* task id -> index of the next statement of the callable
    files,      \* /tmp path -> unit that wrote the current content
    xcom,       \* task id -> value returned by the callable ("none" if not pushed)
    sink,       \* external objects / tables written: set of [by, target]
    reads,      \* history: set of [by, art, from] artifact reads
    writes,     \* history: set of [by, art] artifact writes
    nfail,      \* number of exceptions raised so far in this run
    df,         \* cleaning: the record set handed to clean_data
    out,        \* cleaning: the record set returned by the last call
    prev,       \* cleaning: the argument of the last call
    calls,      \* cleaning: number of clean_data calls made
    cleaned,    \* modelling: the cleaned record set handed to the Gold functions
    feedback,   \* modelling: whether that record set has a CustomerFeedback column
    enriched,   \* modelling: what add_engineered_features returned
    insights,   \* modelling: what create_churn_insights returned
    gold,       \* modelling: what the create_dim_* / create_fact_churn calls returned
    fstage,     \* modelling: "cleaned", "enriched" or "aggregated"
    gstage,     \* modelling: "cleaned" or "projected"
    wstep,      \* warehouse: index of the current insert_dataframe call
    wstatus,    \* warehouse: "running", "done" or "failed"
    ipc,        \* warehouse: position inside the loader / insert_dataframe
    empty,      \* warehouse: whether the record set of the current call is empty
    ops,        \* warehouse: database operations made by the current call
    cursor,     \* warehouse: cursor of the current call: "none", "open", "closed"
    conn,       \* warehouse: connection of the current loader: "none", "open", "closed"
    pending,    \* warehouse: calls whose rows sit in the open transaction
    committed,  \* warehouse: calls whose rows are committed
    jraw,       \* JSON branch: the record set task_extract_json wrote
    jout,       \* JSON branch: what clean_data returned for jraw
    jstage      \* JSON branch: "raw", "extracted" or "cleaned"

dagvars   == <<state, tries, pc, files, xcom, sink, reads, writes, nfail>>
cleanvars == <<df, out, prev, calls>>
jsonvars  == <<jraw, jout, jstage>>
goldvars  == <<cleaned, feedback, enriched, insights, gold, fstage, gstage>>
dbvars    == <<wstep, wstatus, ipc, empty, ops, cursor, conn, pending, committed>>
vars      == <<state, tries, pc, files, xcom, sink, reads, writes, nfail,
               df, out, prev, calls,
               cleaned, feedback, enriched, insights, gold, fstage, gstage,
               wstep, wstatus, ipc, empty, ops, cursor, conn, pending, committed,
               jraw, jout, jstage>>

(***************************************************************************)
(*                         Part I : the DAG                                *)
(***************************************************************************)

\* Bound on the number of exceptions raised in one run.
MaxFailures == 2

Tasks == {"extract_csv", "extract_json", "clean_csv", "clean_json",
          "load_silver", "feature_engineering", "load_gold", "load_warehouse"}

\* default_args["retries"]
Retries_two == 1 + 1
Retries == 1

\* The edges declared with >> : <<upstream, downstream>>.
Edges_noSilverToFeat ==
    {<<"extract_csv", "clean_csv">>, <<"extract_json", "clean_json">>,
     <<"clean_csv", "load_silver">>, <<"clean_json", "load_silver">>,
     <<"feature_engineering", "load_gold">>,
     <<"feature_engineering", "load_warehouse">>}
Edges_noFeatToWarehouse ==
    {<<"extract_csv", "clean_csv">>, <<"extract_json", "clean_json">>,
     <<"clean_csv", "load_silver">>, <<"clean_json", "load_silver">>,
     <<"load_silver", "feature_engineering">>,
     <<"feature_engineering", "load_gold">>}
Edges_withCycle ==
    {<<"extract_csv", "clean_csv">>, <<"extract_json", "clean_json">>,
     <<"clean_csv", "load_silver">>, <<"clean_json", "load_silver">>,
     <<"load_silver", "feature_engineering">>,
     <<"feature_engineering", "load_gold">>,
     <<"feature_engineering", "load_warehouse">>,
     <<"load_warehouse", "load_silver">>}
Edges ==
    {<<"extract_csv", "clean_csv">>, <<"extract_json", "clean_json">>,
     <<"clean_csv", "load_silver">>, <<"clean_json", "load_silver">>,
     <<"load_silver", "feature_engineering">>,
     <<"feature_engineering", "load_gold">>,
     <<"feature_engineering", "load_warehouse">>}

Upstream(t) == {u \in Tasks : <<u, t>> \in Edges}

\* The fixed /tmp files of the task callables.
FeatFiles == {"/tmp/df_csv_feat.parquet", "/tmp/df_json_feat.parquet",
              "/tmp/insights_csv.parquet", "/tmp/insights_json.parquet",
              "/tmp/dim_customer_csv.parquet", "/tmp/dim_customer_json.parquet",
              "/tmp/dim_service_csv.parquet", "/tmp/dim_contract_csv.parquet",
              "/tmp/fact_churn_csv.parquet", "/tmp/fact_churn_json.parquet"}
Paths == {"/tmp/df_csv_raw.parquet", "/tmp/df_json_raw.parquet",
          "/tmp/df_csv_clean.parquet", "/tmp/df_json_clean.parquet"}
         \cup FeatFiles

\* Statements of a callable.  k: "ext_get" (read of an external source),
\* "pull" (xcom_pull of task a followed by read_parquet of the pulled path),
\* "read" (read_parquet of the fixed path a), "write" (to_parquet to a),
\* "put" (upload of object a to MinIO), "insert" (insert_dataframe into table a).
Op(k, a) == [k |-> k, a |-> a]

ReadPut(obj, path) == <<Op("read", path), Op("put", obj)>>

task_extract_csv ==
    <<Op("ext_get", "raw/csv/telco_churn_with_all_feedback.csv"),
      Op("write", "/tmp/df_csv_raw.parquet")>>

task_extract_json ==
    <<Op("ext_get", "raw/json/synthetic_telco_data.json"),
      Op("write", "/tmp/df_json_raw.parquet")>>

task_clean_csv ==
    <<Op("pull", "extract_csv"), Op("write", "/tmp/df_csv_clean.parquet")>>

task_clean_json_csvPath ==
    <<Op("pull", "extract_json"), Op("write", "/tmp/df_csv_clean.parquet")>>
task_clean_json ==
    <<Op("pull", "extract_json"), Op("write", "/tmp/df_json_clean.parquet")>>

task_load_silver ==
    <<Op("pull", "clean_csv"), Op("pull", "clean_json"),
      Op("put", "staging/csv/telco_churn_clean.parquet"),
      Op("put", "staging/json/telco_synthetic_clean.parquet")>>

task_feature_engineering ==
    <<Op("pull", "clean_csv"), Op("pull", "clean_json"),
      Op("write", "/tmp/df_csv_feat.parquet"),
      Op("write", "/tmp/df_json_feat.parquet"),
      Op("write", "/tmp/insights_csv.parquet"),
      Op("write", "/tmp/insights_json.parquet"),
      Op("write", "/tmp/dim_customer_csv.parquet"),
      Op("write", "/tmp/dim_customer_json.parquet"),
      Op("write", "/tmp/dim_service_csv.parquet"),
      Op("write", "/tmp/dim_contract_csv.parquet"),
      Op("write", "/tmp/fact_churn_csv.parquet"),
      Op("write", "/tmp/fact_churn_json.parquet")>>

task_load_gold ==
    ReadPut("curated/features/customer_features_csv.parquet", "/tmp/df_csv_feat.parquet")
    \o ReadPut("curated/features/customer_features_json.parquet", "/tmp/df_json_feat.parquet")
    \o ReadPut("curated/insights/churn_insights_csv.parquet", "/tmp/insights_csv.parquet")
    \o ReadPut("curated/insights/churn_insights_json.parquet", "/tmp/insights_json.parquet")
    \o ReadPut("curated/dimensions/dim_customer_csv.parquet", "/tmp/dim_customer_csv.parquet")
    \o ReadPut("curated/dimensions/dim_customer_json.parquet", "/tmp/dim_customer_json.parquet")
    \o ReadPut("curated/facts/fact_churn_csv.parquet", "/tmp/fact_churn_csv.parquet")
    \o ReadPut("curated/facts/fact_churn_json.parquet", "/tmp/fact_churn_json.parquet")

task_load_warehouse ==
    <<Op("pull", "clean_csv"), Op("pull", "clean_json"),
      Op("insert", "staging.telco_churn_raw"),
      Op("insert", "staging.telco_synthetic_raw"),
      Op("read", "/tmp/dim_customer_csv.parquet"),
      Op("read", "/tmp/dim_service_csv.parquet"),
      Op("read", "/tmp/dim_contract_csv.parquet"),
      Op("read", "/tmp/fact_churn_csv.parquet"),
      Op("insert", "warehouse.dim_customer"),
      Op("insert", "warehouse.dim_service"),
      Op("insert", "warehouse.dim_contract"),
      Op("insert", "warehouse.fact_churn"),
      Op("read", "/tmp/insights_csv.parquet"),
      Op("read", "/tmp/insights_json.parquet"),
      Op("insert", "warehouse.churn_insights"),
      Op("insert", "warehouse.churn_insights"),
      Op("read", "/tmp/df_csv_feat.parquet"),
      Op("read", "/tmp/df_json_feat.parquet"),
      Op("insert", "warehouse.customer_features"),
      Op("insert", "warehouse.customer_features")>>

\* python_callable of each PythonOperator.
Prog(t) ==
    CASE t = "extract_csv" -> task_extract_csv
      [] t = "extract_json" -> task_extract_json
      [] t = "clean_csv" -> task_clean_csv
      [] t = "clean_json" -> task_clean_json
      [] t = "load_silver" -> task_load_silver
      [] t = "feature_engineering" -> task_feature_engineering
      [] t = "load_gold" -> task_load_gold
      [] t = "load_warehouse" -> task_load_warehouse

\* The value a callable returns, pushed as its XCom on success.
ReturnValue(t) ==
    CASE t = "extract_csv" -> "/tmp/df_csv_raw.parquet"
      [] t = "extract_json" -> "/tmp/df_json_raw.parquet"
      [] t = "clean_csv" -> "/tmp/df_csv_clean.parquet"
      [] t = "clean_json" -> "/tmp/df_json_clean.parquet"
      [] t = "feature_engineering" -> "features_done"
      [] OTHER -> "none"

\* Artifacts: the XCom of a task, or a /tmp file.
XArt(t) == [kind |-> "xcom", name |-> t]
FArt(p) == [kind |-> "file", name |-> p]

CurOp(t) == Prog(t)[pc[t]]

\* A statement raises when the artifact it reads does not exist:
\* xcom_pull returns None, or read_parquet finds no file.
Missing(t) ==
    LET o == CurOp(t) IN
    IF o.k = "pull"
      THEN (IF xcom[o.a] = "none" THEN TRUE ELSE files[xcom[o.a]] = "absent")
      ELSE (IF o.k = "read" THEN files[o.a] = "absent" ELSE FALSE)

\* The parts of the state a specification leaves at rest.
DagIdle ==
    /\ state = [t \in Tasks |-> "none"]
    /\ tries = [t \in Tasks |-> 0]
    /\ pc = [t \in Tasks |-> 0]
    /\ files = [p \in Paths |-> "absent"]
    /\ xcom = [t \in Tasks |-> "none"]
    /\ sink = {}
    /\ reads = {}
    /\ writes = {}
    /\ nfail = 0

CleanIdle ==
    /\ df = <<>>
    /\ out = [ok |-> TRUE, rows |-> <<>>]
    /\ prev = <<>>
    /\ calls = 0

GoldIdle ==
    /\ cleaned = <<>>
    /\ feedback = FALSE
    /\ enriched = <<>>
    /\ insights = <<>>
    /\ gold = <<>>
    /\ fstage = "cleaned"
    /\ gstage = "cleaned"

WarehouseIdle ==
    /\ wstep = 1
    /\ wstatus = "running"
    /\ ipc = "connect"
    /\ empty = FALSE
    /\ ops = 0
    /\ cursor = "none"
    /\ conn = "none"
    /\ pending = {}
    /\ committed = {}

JsonIdle ==
    /\ jraw = <<>>
    /\ jout = [ok |-> TRUE, rows |-> <<>>]
    /\ jstage = "raw"

InitDag ==
    /\ state = [t \in Tasks |-> "none"]
    /\ tries = [t \in Tasks |-> 0]
    /\ pc = [t \in Tasks |-> 0]
    /\ \E s \in {"absent", "stale"} : files = [p \in Paths |-> s]
    /\ xcom = [t \in Tasks |-> "none"]
    /\ sink = {}
    /\ reads = {}
    /\ writes = {}
    /\ nfail = 0
    /\ CleanIdle
    /\ GoldIdle
    /\ WarehouseIdle
    /\ JsonIdle

\* Variant of Start with trigger rule all_done instead of all_success.
Start_allDone(t) ==
    /\ state[t] = "none"
    /\ \A u \in Upstream(t) : state[u] \in {"success", "failed", "upstream_failed"}
    /\ state' = [state EXCEPT ![t] = "running"]
    /\ tries' = [tries EXCEPT ![t] = 1]
    /\ pc' = [pc EXCEPT ![t] = 1]
    /\ UNCHANGED <<files, xcom, sink, reads, writes, nfail>>
    /\ UNCHANGED <<cleanvars, goldvars, dbvars, jsonvars>>

\* Scheduler: a task instance is started once all its upstream tasks succeeded
\* (default trigger rule all_success).
Start(t) ==
    /\ state[t] = "none"
    /\ \A u \in Upstream(t) : state[u] = "success"
    /\ state' = [state EXCEPT ![t] = "running"]
    /\ tries' = [tries EXCEPT ![t] = 1]
    /\ pc' = [pc EXCEPT ![t] = 1]
    /\ UNCHANGED <<files, xcom, sink, reads, writes, nfail>>
    /\ UNCHANGED <<cleanvars, goldvars, dbvars, jsonvars>>

\* Scheduler: a task with a failed or skipped upstream is never run.
UpstreamFailed(t) ==
    /\ state[t] = "none"
    /\ \E u \in Upstream(t) : state[u] \in {"failed", "upstream_failed"}
    /\ state' = [state EXCEPT ![t] = "upstream_failed"]
    /\ UNCHANGED <<tries, pc, files, xcom, sink, reads, writes, nfail>>
    /\ UNCHANGED <<cleanvars, goldvars, dbvars, jsonvars>>

\* One statement of the callable of a running task.
Exec(t) ==
    /\ state[t] = "running"
    /\ pc[t] <= Len(Prog(t))
    /\ ~Missing(t)
    /\ LET o == CurOp(t) IN
         /\ reads' =
              CASE o.k = "pull" ->
                     reads \cup {[by |-> t, art |-> XArt(o.a), from |-> o.a],
                                 [by |-> t, art |-> FArt(xcom[o.a]),
                                  from |-> files[xcom[o.a]]]}
                [] o.k = "read" ->
                     reads \cup {[by |-> t, art |-> FArt(o.a), from |-> files[o.a]]}
                [] OTHER -> reads
         /\ files' = IF o.k = "write" THEN [files EXCEPT ![o.a] = t] ELSE files
         /\ writes' = IF o.k = "write"
                        THEN writes \cup {[by |-> t, art |-> FArt(o.a)]}
                        ELSE writes
         /\ sink' = IF o.k \in {"put", "insert"}
                      THEN sink \cup {[by |-> t, target |-> o.a]}
                      ELSE sink
    /\ pc' = [pc EXCEPT ![t] = @ + 1]
    /\ UNCHANGED <<state, tries, xcom, nfail>>
    /\ UNCHANGED <<cleanvars, goldvars, dbvars, jsonvars>>

\* The callable raises at its current statement: the attempt ends, and the
\* task instance is retried while attempts remain (retries = 1).
Raise(t) ==
    /\ state[t] = "running"
    /\ pc[t] <= Len(Prog(t))
    /\ Missing(t) \/ nfail < MaxFailures
    /\ nfail' = IF nfail < MaxFailures THEN nfail + 1 ELSE nfail
    /\ state' = [state EXCEPT ![t] =
                    IF tries[t] <= Retries THEN "up_for_retry" ELSE "failed"]
    /\ UNCHANGED <<tries, pc, files, xcom, sink, reads, writes>>
    /\ UNCHANGED <<cleanvars, goldvars, dbvars, jsonvars>>

\* After retry_delay the task instance is run again from its first statement.
Retry(t) ==
    /\ state[t] = "up_for_retry"
    /\ state' = [state EXCEPT ![t] = "running"]
    /\ tries' = [tries EXCEPT ![t] = @ + 1]
    /\ pc' = [pc EXCEPT ![t] = 1]
    /\ UNCHANGED <<files, xcom, sink, reads, writes, nfail>>
    /\ UNCHANGED <<cleanvars, goldvars, dbvars, jsonvars>>

\* The callable returns: the return value is pushed as XCom (unless None).
Succeed(t) ==
    /\ state[t] = "running"
    /\ pc[t] = Len(Prog(t)) + 1
    /\ state' = [state EXCEPT ![t] = "success"]
    /\ xcom' = [xcom EXCEPT ![t] = ReturnValue(t)]
    /\ writes' = IF ReturnValue(t) # "none"
                   THEN writes \cup {[by |-> t, art |-> XArt(t)]}
                   ELSE writes
    /\ UNCHANGED <<tries, pc, files, sink, reads, nfail>>
    /\ UNCHANGED <<cleanvars, goldvars, dbvars, jsonvars>>

Next ==
    \E t \in Tasks :
        \/ Start(t)
        \/ UpstreamFailed(t)
        \/ Exec(t)
        \/ Raise(t)
        \/ Retry(t)
        \/ Succeed(t)

Spec == InitDag /\ [][Next]_vars


(***************************************************************************)
(*                    Properties of the DAG (C1 - C5)                      *)
(***************************************************************************)

\* The topology as the specification states it: <<upstream, downstream>>.
ClaimedEdges ==
    {<<"extract_csv", "clean_csv">>, <<"extract_json", "clean_json">>,
     <<"clean_csv", "load_silver">>, <<"clean_json", "load_silver">>,
     <<"load_silver", "feature_engineering">>,
     <<"feature_engineering", "load_gold">>,
     <<"feature_engineering", "load_warehouse">>}

ClaimedUp(t) == {u \in Tasks : <<u, t>> \in ClaimedEdges}

RECURSIVE ClaimedAncN(_, _)
ClaimedAncN(S, n) ==
    IF n = 0 THEN S
    ELSE ClaimedAncN(S \cup UNION {ClaimedUp(x) : x \in S}, n - 1)

\* Transitive upstream units of t in the stated topology.
ClaimedAncOf == [t \in Tasks |-> ClaimedAncN(ClaimedUp(t), Cardinality(Tasks))]
ClaimedAnc(t) == ClaimedAncOf[t]

Independent(u, v) == u # v /\ u \notin ClaimedAnc(v) /\ v \notin ClaimedAnc(u)

\* C1: a unit has started only if every unit upstream of it in the stated
\* topology has completed successfully; in particular feature_engineering has
\* started only if clean_csv, clean_json and load_silver all succeeded.
C1_StartsAfterUpstreamSuccess ==
    /\ \A e \in ClaimedEdges : tries[e[2]] > 0 => state[e[1]] = "success"
    /\ tries["feature_engineering"] > 0 =>
          /\ state["clean_csv"] = "success"
          /\ state["clean_json"] = "success"
          /\ state["load_silver"] = "success"

C1_Witness ==
    /\ state["load_gold"] = "running"
    /\ state["load_warehouse"] = "running"

\* C2: once a unit has failed, no unit that depends on it directly or
\* transitively has ever started or will start; independent units may still
\* complete (witness: the JSON branch succeeds while the CSV branch failed).
C2_NoDownstreamAfterFailure ==
    \A u \in Tasks : \A d \in Tasks :
        (state[u] = "failed" /\ u \in ClaimedAnc(d)) =>
            (tries[d] = 0 /\ state[d] \in {"none", "upstream_failed"})

C2_Witness ==
    /\ state["extract_csv"] = "failed"
    /\ state["clean_csv"] = "upstream_failed"
    /\ state["clean_json"] = "success"

\* C3 (as stated): no unit is attempted a second time within one run.
C3_AtMostOneAttempt == \A t \in Tasks : tries[t] <= 1

\* C3 (amended): a unit is attempted at most twice within one run, and a
\* second attempt starts only from the retry state left by a raised attempt,
\* never after the unit succeeded.
C3_AtMostTwoAttempts ==
    [][\A t \in Tasks :
          /\ tries'[t] <= 2
          /\ (tries[t] >= 1 /\ tries'[t] # tries[t]) =>
                (state[t] = "up_for_retry" /\ tries'[t] = tries[t] + 1)
          /\ state[t] = "success" => (state'[t] = "success" /\ tries'[t] = tries[t])
      ]_vars

C3_Witness == \E t \in Tasks : tries[t] = 2 /\ state[t] = "success"

\* C4: every artifact read (XCom or /tmp file) holds content written in this
\* run by a transitive upstream unit of the reader: never content left by an
\* earlier run, never content of a downstream or unrelated unit.
C4_ReadsOnlyUpstreamArtifacts ==
    \A r \in reads :
        /\ r.from \in ClaimedAnc(r.by)
        /\ r.by = "feature_engineering" => r.from \notin {"load_gold", "load_warehouse"}
        /\ r.by \in {"load_gold", "load_warehouse"} =>
              r.from \in {"feature_engineering", "clean_csv", "clean_json"}

C4_Witness ==
    /\ [by |-> "load_warehouse", art |-> FArt("/tmp/df_json_feat.parquet"),
        from |-> "feature_engineering"] \in reads
    /\ [by |-> "load_gold", art |-> FArt("/tmp/fact_churn_json.parquet"),
        from |-> "feature_engineering"] \in reads
    /\ [by |-> "feature_engineering", art |-> XArt("clean_json"),
        from |-> "clean_json"] \in reads

\* C5: every artifact path has a single writer, and a unit never writes an
\* artifact that a unit independent of it writes or reads.
C5_NoSharedArtifacts ==
    /\ \A w1 \in writes : \A w2 \in writes : w1.art = w2.art => w1.by = w2.by
    /\ \A w \in writes : \A r \in reads :
          w.art = r.art => ~Independent(w.by, r.by)

C5_Witness ==
    /\ state["load_gold"] = "running" /\ pc["load_gold"] > 2
    /\ state["load_warehouse"] = "running" /\ pc["load_warehouse"] > 6
    /\ \E w \in writes : w.by = "clean_csv"
    /\ \E w \in writes : w.by = "clean_json"


(***************************************************************************)
(*                 Part II : clean_data (transform_data.py)                *)
(***************************************************************************)

\* Bound on the number of rows of the multi-row input record sets.
MaxRows == 3
\* Bound on the number of successive clean_data calls on one record set.
MaxCalls == 2

\* ---- cell values --------------------------------------------------------
\* A cell is [k, n, s]: k is the Python type of the value, n the number
\* (an int, a bool as 0/1, or a float in hundredths), s the characters of a
\* string.  "none" is None, "nan" is float NaN.
None  == [k |-> "none",  n |-> 0, s |-> <<>>]
NaN   == [k |-> "nan",   n |-> 0, s |-> <<>>]
I(x)  == [k |-> "int",   n |-> x, s |-> <<>>]
F(h)  == [k |-> "float", n |-> h, s |-> <<>>]
B(b)  == [k |-> "bool",  n |-> b, s |-> <<>>]
S(cs) == [k |-> "str",   n |-> 0, s |-> cs]

\* pd.isna / pd.notna
IsNa(c) == c.k \in {"none", "nan"}

\* ---- Python string functions -------------------------------------------
Uppers == <<"A","B","C","D","E","F","G","H","I","J","K","L","M",
            "N","O","P","Q","R","S","T","U","V","W","X","Y","Z">>
Lowers == <<"a","b","c","d","e","f","g","h","i","j","k","l","m",
            "n","o","p","q","r","s","t","u","v","w","x","y","z">>
Digits == <<"0","1","2","3","4","5","6","7","8","9">>

Range(f) == {f[i] : i \in DOMAIN f}

LowerCh(c) == IF c \in Range(Uppers)
                THEN Lowers[CHOOSE i \in 1..26 : Uppers[i] = c] ELSE c
UpperCh(c) == IF c \in Range(Lowers)
                THEN Uppers[CHOOSE i \in 1..26 : Lowers[i] = c] ELSE c

RECURSIVE LStripCh(_, _)
LStripCh(cs, C) ==
    IF cs = <<>> THEN <<>>
    ELSE IF Head(cs) \in C THEN LStripCh(Tail(cs), C) ELSE cs

RECURSIVE RStripCh(_, _)
RStripCh(cs, C) ==
    IF cs = <<>> THEN <<>>
    ELSE IF cs[Len(cs)] \in C THEN RStripCh(SubSeq(cs, 1, Len(cs) - 1), C) ELSE cs

\* str.strip()
PyStrip(cs) == RStripCh(LStripCh(cs, {" "}), {" "})
\* str.lower()
PyLower(cs) == [i \in 1..Len(cs) |-> LowerCh(cs[i])]
\* str.capitalize(): first character upper-cased, the rest lower-cased
PyCapitalize(cs) ==
    [i \in 1..Len(cs) |-> IF i = 1 THEN UpperCh(cs[i]) ELSE LowerCh(cs[i])]

\* s.split(c)[0]: the characters before the first c
RECURSIVE SplitFirst(_, _)
SplitFirst(cs, c) ==
    IF cs = <<>> \/ Head(cs) = c THEN <<>>
    ELSE <<Head(cs)>> \o SplitFirst(Tail(cs), c)

AllDigits(cs) == \A i \in 1..Len(cs) : cs[i] \in Range(Digits)

RECURSIVE NumVal(_)
NumVal(cs) ==
    IF cs = <<>> THEN 0
    ELSE 10 * NumVal(SubSeq(cs, 1, Len(cs) - 1))
         + ((CHOOSE d \in 1..10 : Digits[d] = cs[Len(cs)]) - 1)

\* The digits after the first "." of a literal (none without a ".")
FracPart(body) ==
    IF "." \in Range(body)
      THEN SubSeq(body, Len(SplitFirst(body, ".")) + 2, Len(body))
      ELSE <<>>

GoodParts(ip, fp) ==
    /\ AllDigits(ip) /\ AllDigits(fp)
    /\ Len(ip) + Len(fp) > 0 /\ Len(fp) <= 2

Magnitude(ip, fp) ==
    100 * NumVal(ip) + (IF Len(fp) = 1 THEN 10 * NumVal(fp) ELSE NumVal(fp))

FloatOfParts(neg, ip, fp) ==
    IF GoodParts(ip, fp)
      THEN [ok |-> TRUE,
            v |-> IF neg THEN 0 - Magnitude(ip, fp) ELSE Magnitude(ip, fp)]
      ELSE [ok |-> FALSE, v |-> 0]

FloatOfBody(neg, body) == FloatOfParts(neg, SplitFirst(body, "."), FracPart(body))

FloatOfStripped(t) ==
    IF t = <<>> THEN [ok |-> FALSE, v |-> 0]
    ELSE IF Head(t) \in {"-", "+"} THEN FloatOfBody(Head(t) = "-", Tail(t))
    ELSE FloatOfBody(FALSE, t)

\* float(s) for decimal literals [sign] digits [. digits], surrounding
\* whitespace ignored; ok = FALSE is ValueError.  v is in hundredths; literals
\* with more than two fraction digits are outside the modelled inputs.
PyFloat(cs) == FloatOfStripped(PyStrip(cs))

RECURSIVE NatStr(_)
NatStr(x) == IF x < 10 THEN <<Digits[x + 1]>>
             ELSE NatStr(x \div 10) \o <<Digits[(x % 10) + 1]>>

Abs(x) == IF x < 0 THEN 0 - x ELSE x

\* str of a float of magnitude a hundredths: at least one fraction digit
FloatStr(a) ==
    NatStr(a \div 100) \o <<".">>
    \o (IF a % 10 = 0 THEN <<Digits[((a % 100) \div 10) + 1]>>
        ELSE <<Digits[((a % 100) \div 10) + 1], Digits[(a % 10) + 1]>>)

\* str(x)
PyStr(c) ==
    CASE c.k = "str"   -> c.s
      [] c.k = "none"  -> <<"N","o","n","e">>
      [] c.k = "nan"   -> <<"n","a","n">>
      [] c.k = "bool"  -> IF c.n = 1 THEN <<"T","r","u","e">>
                          ELSE <<"F","a","l","s","e">>
      [] c.k = "int"   -> (IF c.n < 0 THEN <<"-">> ELSE <<>>) \o NatStr(Abs(c.n))
      [] c.k = "float" -> (IF c.n < 0 THEN <<"-">> ELSE <<>>) \o FloatStr(Abs(c.n))

\* ---- the steps of clean_data -------------------------------------------

\* float result p as a cell, NaN on ValueError
FloatCell(p) == IF p.ok THEN F(p.v) ELSE NaN

\* s.lstrip("$"), then s.split("$")[0] if "$" in s
DollarToken(s1) ==
    IF "$" \in Range(LStripCh(s1, {"$"}))
      THEN SplitFirst(LStripCh(s1, {"$"}), "$")
      ELSE LStripCh(s1, {"$"})

\* the two try/except blocks on s = str(val).strip()
ParseStripped(s1) ==
    IF PyFloat(s1).ok THEN FloatCell(PyFloat(s1))
    ELSE FloatCell(PyFloat(DollarToken(s1)))

\* _parse_total_charges(val)
parse_total_charges(val) ==
    IF IsNa(val) \/ (val.k = "str" /\ val.s \in {<<>>, <<" ">>}) THEN NaN
    ELSE ParseStripped(PyStrip(PyStr(val)))

\* pd.to_numeric(..., errors="coerce") on one value: a float or NaN
ToNumeric(c) ==
    CASE c.k = "int"   -> F(100 * c.n)
      [] c.k = "bool"  -> F(100 * c.n)
      [] c.k = "float" -> c
      [] c.k = "str"   -> FloatCell(PyFloat(c.s))
      [] OTHER         -> NaN

\* astype(int) of a float of h hundredths: truncation toward zero
AsTypeInt(h) == IF h < 0 THEN 0 - ((0 - h) \div 100) ELSE h \div 100

\* .fillna(0).astype(int)
FillNaInt(x) == IF IsNa(x) THEN I(0) ELSE I(AsTypeInt(x.n))

\* pd.to_numeric(tenure, errors="coerce").fillna(0).astype(int)
CleanTenure(c) == FillNaInt(ToNumeric(c))

\* Variant of Impute that forgets the tenure factor.
Impute_monthlyOnly(total, monthly, tenure) ==
    IF IsNa(total) THEN monthly ELSE total

\* df.loc[mask, "TotalCharges"] = MonthlyCharges * tenure, mask = isna()
Impute(total, monthly, tenure) ==
    IF IsNa(total)
      THEN (IF IsNa(monthly) THEN NaN ELSE F(monthly.n * tenure.n))
      ELSE total

\* dtype pandas infers for a column holding these values
ColDtype(col) ==
    IF \A i \in DOMAIN col : col[i].k = "none" THEN "object"
    ELSE IF \A i \in DOMAIN col : col[i].k = "int" THEN "int64"
    ELSE IF \A i \in DOMAIN col : col[i].k = "bool" THEN "bool"
    ELSE IF \A i \in DOMAIN col : col[i].k \in {"int", "float", "nan", "none"}
      THEN "float64"
    ELSE "object"

\* .map({"Yes": 1, "No": 0, "1": 1, "0": 0}).fillna(0).astype(int)
SeniorMap(c) ==
    IF c.k = "str" /\ c.s \in {<<"Y","e","s">>, <<"1">>} THEN I(1) ELSE I(0)

\* Variant of NormSenior without the dtype test: always the mapping.
NormSenior_alwaysMap(dtype, c) == SeniorMap(c)

\* SeniorCitizen of one row, given the dtype of the whole column
NormSenior(dtype, c) ==
    IF dtype = "object" THEN SeniorMap(c)
    ELSE IF c.k = "float" THEN I(AsTypeInt(c.n))
    ELSE I(c.n)

\* astype(int) raises on a numeric column that holds NaN
SeniorRaises(col) ==
    ColDtype(col) # "object" /\ \E i \in DOMAIN col : IsNa(col[i])

\* Key under which drop_duplicates compares customerID (all nulls are equal)
DupKey(c) == IF IsNa(c) THEN NaN ELSE c

RECURSIVE KeepLast(_)
KeepLast(rows) ==
    IF rows = <<>> THEN <<>>
    ELSE LET r == Head(rows) IN
         IF \E j \in 2..Len(rows) : DupKey(rows[j].customerID) = DupKey(r.customerID)
           THEN KeepLast(Tail(rows))
           ELSE <<r>> \o KeepLast(Tail(rows))

\* Variant of drop_duplicates with keep="last".
drop_duplicates_keepLast(rows) == KeepLast(rows)

RECURSIVE KeepFirst(_, _)
KeepFirst(rows, seen) ==
    IF rows = <<>> THEN <<>>
    ELSE LET r == Head(rows)
             key == DupKey(r.customerID)
         IN  IF key \in seen THEN KeepFirst(Tail(rows), seen)
             ELSE <<r>> \o KeepFirst(Tail(rows), seen \cup {key})

\* df.drop_duplicates(subset=["customerID"], keep="first")
drop_duplicates(rows) == KeepFirst(rows, {})

\* The lambda without its pd.notna(x) test: a null cell keeps its text.
YesNoPick_nullAsText(l, st, na) ==
    IF l \in {<<"y","e","s">>, <<"t","r","u","e">>, <<"1">>} THEN S(<<"Y","e","s">>)
    ELSE IF l \in {<<"n","o">>, <<"f","a","l","s","e">>, <<"0">>} THEN S(<<"N","o">>)
    ELSE S(PyCapitalize(st))

\* The lambda on st = str(x).strip() and l = st.lower()
YesNoPick(l, st, na) ==
    IF l \in {<<"y","e","s">>, <<"t","r","u","e">>, <<"1">>} THEN S(<<"Y","e","s">>)
    ELSE IF l \in {<<"n","o">>, <<"f","a","l","s","e">>, <<"0">>} THEN S(<<"N","o">>)
    ELSE IF ~na THEN S(PyCapitalize(st))
    ELSE S(<<"N","o">>)

YesNoOf(st, na) == YesNoPick(PyLower(st), st, na)

\* The lambda applied to Partner, Dependents, PhoneService, PaperlessBilling, Churn
NormYesNo(x) == YesNoOf(PyStrip(PyStr(x)), IsNa(x))

\* gender.str.strip().str.capitalize(): NaN for a value that is not a string
NormGender(c) == IF c.k = "str" THEN S(PyCapitalize(PyStrip(c.s))) ELSE NaN

YesNoCols == {"Partner", "Dependents", "PhoneService", "PaperlessBilling", "Churn"}

SeniorCol(X) == [i \in DOMAIN X |-> X[i].SeniorCitizen]

\* Steps 1-4 and the SeniorCitizen step on one row
CleanNumbers(r, tot, mon, ten, dt) ==
    [r EXCEPT !.TotalCharges = Impute(tot, mon, ten),
              !.MonthlyCharges = mon,
              !.tenure = ten,
              !.SeniorCitizen = NormSenior(dt, r.SeniorCitizen)]

CleanNumbersAll(X, dt) ==
    [i \in DOMAIN X |->
        CleanNumbers(X[i], parse_total_charges(X[i].TotalCharges),
                     parse_total_charges(X[i].MonthlyCharges),
                     CleanTenure(X[i].tenure), dt)]

\* The Yes/No loop and the gender step on one row
CleanFlags(r) ==
    [r EXCEPT !.Partner = NormYesNo(r.Partner),
              !.Dependents = NormYesNo(r.Dependents),
              !.PhoneService = NormYesNo(r.PhoneService),
              !.PaperlessBilling = NormYesNo(r.PaperlessBilling),
              !.Churn = NormYesNo(r.Churn),
              !.gender = NormGender(r.gender)]

CleanFlagsAll(Y) == [i \in DOMAIN Y |-> CleanFlags(Y[i])]

\* clean_data(df): [ok |-> FALSE] when the call raises
clean_data(X) ==
    IF SeniorRaises(SeniorCol(X)) THEN [ok |-> FALSE, rows |-> <<>>]
    ELSE [ok |-> TRUE,
          rows |-> CleanFlagsAll(drop_duplicates(
                       CleanNumbersAll(X, ColDtype(SeniorCol(X)))))]

\* ---- bounded inputs -----------------------------------------------------
TenureVals ==
    {I(5), I(0), I(-3), F(370),
     F(-370), S(<<"1","2">>), S(<<"3",".","7">>), S(<<"a","b","c">>),
     None, NaN}
MoneyVals ==
    {F(7000), I(70), S(<<"2","9",".","8","5">>),
     S(<<"$","2","9",".","8","5","$","2","9",".","8","5","$","2","9",".","8","5">>), S(<<"2","9",".","8","5","$">>), S(<<"x","$","2","9",".","8","5">>),
     S(<<"$">>), S(<<"a","b","c">>), S(<<>>),
     S(<<" ">>), S(<<" ","7","0"," ">>), None,
     NaN}
SeniorVals ==
    {S(<<"Y","e","s">>), S(<<"N","o">>), S(<<"1">>), S(<<"0">>),
     S(<<"y","e","s">>), I(1), I(0), I(2),
     B(1), B(0), F(100), None,
     NaN}
YesNoVals ==
    {S(<<"Y","e","s">>), S(<<"y","e","s">>), S(<<" ","Y","E","S"," ">>), S(<<"t","r","u","e">>),
     S(<<"1">>), S(<<"N","o">>), S(<<"n","o">>), S(<<"F","a","l","s","e">>),
     S(<<"0">>), S(<<"m","a","y","b","e">>), S(<<" ","M","a","y","b","e"," ">>), S(<<>>),
     S(<<"N","o","n","e">>), S(<<"n","a","n">>), S(<<"1",".","0">>), B(1),
     B(0), I(1), I(0), I(2),
     F(100), None, NaN}
GenderVals ==
    {S(<<"M","a","l","e">>), S(<<" ","f","e","m","a","l","e"," ">>), S(<<"F","E","M","A","L","E">>), S(<<>>),
     None}

CustomerIDs == {S(<<"C","1">>), S(<<"C","2">>)}

BaseRow ==
    [customerID |-> S(<<"C","1">>), Contract |-> S(<<"a">>),
     tenure |-> I(5), MonthlyCharges |-> F(7000), TotalCharges |-> F(35000),
     SeniorCitizen |-> I(0),
     Partner |-> S(<<"N","o">>), Dependents |-> S(<<"N","o">>),
     PhoneService |-> S(<<"N","o">>), PaperlessBilling |-> S(<<"N","o">>),
     Churn |-> S(<<"N","o">>), gender |-> S(<<"M","a","l","e">>)]

\* A second row shape: dirty tenure, blank TotalCharges, unnormalized flags.
DirtyRow ==
    [BaseRow EXCEPT !.Contract = S(<<"b">>), !.tenure = F(-370),
                    !.MonthlyCharges = S(<<"$","2","9",".","8","5","$","2","9",".","8","5","$","2","9",".","8","5">>),
                    !.TotalCharges = S(<<" ">>),
                    !.Churn = S(<<" ","Y","E","S"," ">>),
                    !.Partner = None,
                    !.gender = S(<<" ","f","e","m","a","l","e"," ">>)]

\* Single rows that vary one group of columns of BaseRow over its domain.
DeepRows ==
    {[BaseRow EXCEPT !.tenure = t, !.MonthlyCharges = m, !.TotalCharges = x] :
        t \in TenureVals, m \in MoneyVals, x \in MoneyVals}
    \cup {[BaseRow EXCEPT !.SeniorCitizen = c] : c \in SeniorVals}
    \cup {[BaseRow EXCEPT ![col] = v] : col \in YesNoCols, v \in YesNoVals}
    \cup {[BaseRow EXCEPT !.gender = g] : g \in GenderVals}

\* Rows of the multi-row record sets: duplicate keys and mixed SeniorCitizen.
WideRows ==
    {[r EXCEPT !.customerID = id, !.SeniorCitizen = c] :
        r \in {BaseRow, DirtyRow}, id \in CustomerIDs,
        c \in {I(1), S(<<"Y","e","s">>), NaN}}

Inputs ==
    {<<r>> : r \in DeepRows}
    \cup UNION {[1..n -> WideRows] : n \in 0..MaxRows}

InitClean ==
    /\ DagIdle
    /\ df \in Inputs
    /\ out = [ok |-> TRUE, rows |-> df]
    /\ prev = <<>>
    /\ calls = 0
    /\ GoldIdle
    /\ WarehouseIdle
    /\ JsonIdle

\* One call of clean_data on the current record set (the input at first,
\* then the record set the previous call returned).
Clean ==
    /\ calls < MaxCalls
    /\ out.ok
    /\ prev' = out.rows
    /\ out' = clean_data(out.rows)
    /\ calls' = calls + 1
    /\ UNCHANGED df
    /\ UNCHANGED <<dagvars, goldvars, dbvars, jsonvars>>

NextClean == Clean

SpecClean == InitClean /\ [][NextClean]_vars


(***************************************************************************)
(*                  Properties of clean_data (C6 - C10)                    *)
(***************************************************************************)

\* Indices of the input rows whose customerID has not occurred before.
FirstIdx(X) ==
    {i \in 1..Len(X) : \A j \in 1..(i - 1) : X[j].customerID # X[i].customerID}

\* The k-th smallest element of a set of indices.
NthOf(Ix, k) == CHOOSE i \in Ix : Cardinality({j \in Ix : j <= i}) = k

\* s.split("$"): the '$'-delimited tokens of a string.
RECURSIVE Tokens(_)
Tokens(cs) ==
    LET h == SplitFirst(cs, "$") IN
    IF Len(h) = Len(cs) THEN <<h>>
    ELSE <<h>> \o Tokens(SubSeq(cs, Len(h) + 2, Len(cs)))

\* The first token that is a valid number, NaN when no token is.
FirstValidToken(cs) ==
    LET tk == Tokens(cs)
        ok == {i \in 1..Len(tk) : PyFloat(tk[i]).ok}
    IN  IF ok = {} THEN NaN ELSE F(PyFloat(tk[NthOf(ok, 1)]).v)

\* C6: cleaning is idempotent: cleaning a record set that clean_data returned
\* succeeds and returns it unchanged, row for row and cell for cell.
C6_CleanIdempotent ==
    calls >= 2 => (out.ok /\ out.rows = prev)

C6_Witness ==
    /\ calls = 2 /\ out.ok
    /\ Len(df) >= 2 /\ Len(prev) >= 2 /\ Len(prev) < Len(df)
    /\ \E i \in 1..Len(prev) : prev[i].Churn # df[i].Churn
    /\ \E i \in 1..Len(df) : df[i].SeniorCitizen.k = "str"

\* C7 (as stated): after clean_data every tenure is an integer >= 0.
C7_TenureNonNegativeInt ==
    (calls = 1 /\ out.ok) =>
        \A i \in 1..Len(out.rows) :
            out.rows[i].tenure.k = "int" /\ out.rows[i].tenure.n >= 0

\* C8: the output holds exactly the first occurrence of every customerID of
\* the input, in input order, and no customerID twice.
C8_DedupFirstWins ==
    (calls = 1 /\ out.ok) =>
        LET X == prev
            Y == out.rows
            Ix == FirstIdx(X)
        IN  /\ Len(Y) = Cardinality(Ix)
            /\ \A a \in 1..Len(Y) : \A b \in 1..Len(Y) :
                  a # b => Y[a].customerID # Y[b].customerID
            /\ \A k \in 1..Len(Y) :
                  /\ Y[k].customerID = X[NthOf(Ix, k)].customerID
                  /\ Y[k].Contract = X[NthOf(Ix, k)].Contract

C8_Witness ==
    /\ calls = 1 /\ out.ok
    /\ Len(prev) = 3 /\ Len(out.rows) = 2
    /\ prev[1].customerID = prev[3].customerID
    /\ prev[1].customerID # prev[2].customerID
    /\ prev[1].Contract # prev[3].Contract

\* C9 (as stated): a monetary cell given as a string of '$'-delimited tokens
\* cleans to the first token that is a valid number, and to NaN only when no
\* token is a valid number.
C9_FirstValidToken ==
    (calls = 1 /\ out.ok) =>
        \A i \in 1..Len(prev) :
            (i \in FirstIdx(prev) /\ Len(prev) = 1
             /\ prev[i].MonthlyCharges.k = "str"
             /\ "$" \in Range(prev[i].MonthlyCharges.s)) =>
                out.rows[i].MonthlyCharges = FirstValidToken(prev[i].MonthlyCharges.s)

C11_SeniorNormalized ==
    (calls = 1 /\ out.ok) =>
        \A k \in 1..Len(out.rows) :
            LET src == prev[NthOf(FirstIdx(prev), k)].SeniorCitizen
                y   == out.rows[k].SeniorCitizen
            IN  /\ src \in {S(<<"Y","e","s">>), I(1), S(<<"1">>)} => y = I(1)
                /\ src \in {S(<<"N","o">>), I(0)} => y = I(0)
                /\ y.k = "int" /\ y.n \in {0, 1}

\* What the Yes/No columns are said to hold after cleaning: "Yes" for any
\* casing of yes/true, for True and for 1, "No" for any casing of no/false,
\* for False, for 0 and for a null cell, and the trimmed, capitalized text of
\* any other value (a float 1.0 included, whose text is "1.0").
ClaimedYesNo(x) ==
    IF IsNa(x) THEN S(<<"N","o">>)
    ELSE IF x \in {B(1), I(1)} THEN S(<<"Y","e","s">>)
    ELSE IF x \in {B(0), I(0)} THEN S(<<"N","o">>)
    ELSE IF x.k = "str" /\ PyLower(PyStrip(x.s)) \in
                {<<"y","e","s">>, <<"t","r","u","e">>, <<"1">>}
         THEN S(<<"Y","e","s">>)
    ELSE IF x.k = "str" /\ PyLower(PyStrip(x.s)) \in
                {<<"n","o">>, <<"f","a","l","s","e">>, <<"0">>}
         THEN S(<<"N","o">>)
    ELSE IF x.k = "str" THEN S(PyCapitalize(PyStrip(x.s)))
    ELSE S(PyCapitalize(PyStrip(PyStr(x))))

\* C12: in each of Partner, Dependents, PhoneService, PaperlessBilling and
\* Churn, every kept row holds "Yes" for yes/true/True/1, "No" for
\* no/false/False/0 and for a null cell, and otherwise the trimmed,
\* capitalized form of the value.
C12_YesNoNormalized ==
    (calls = 1 /\ out.ok) =>
        \A k \in 1..Len(out.rows) : \A col \in YesNoCols :
            out.rows[k][col] = ClaimedYesNo(prev[NthOf(FirstIdx(prev), k)][col])

C12_Witness ==
    /\ calls = 1 /\ out.ok /\ Len(prev) = 2 /\ Len(out.rows) = 2
    /\ prev[2].Partner = None /\ out.rows[2].Partner = S(<<"N","o">>)
    /\ prev[2].Churn = S(<<" ","Y","E","S"," ">>)
    /\ out.rows[2].Churn = S(<<"Y","e","s">>)


(***************************************************************************)
(*   Part III : the Gold functions of src/transform/create_insights.py     *)
(*              and src/transform/transform_data.py on cleaned record sets *)
(***************************************************************************)

\* Bound on the number of rows of a cleaned record set.
MaxGoldRows == 2

RECURSIVE SumSeq(_)
SumSeq(s) == IF s = <<>> THEN 0 ELSE Head(s) + SumSeq(Tail(s))

RECURSIVE SetToSeq(_)
SetToSeq(A) ==
    IF A = {} THEN <<>>
    ELSE LET x == CHOOSE x \in A : TRUE IN <<x>> \o SetToSeq(A \ {x})

\* The cells of one column, top to bottom.
Column(X, col) == [i \in 1..Len(X) |-> X[i][col]]

\* ---- add_engineered_features --------------------------------------------
tenure_bins == <<0, 12, 24, 48, 60, 100>>
tenure_labels == <<<<"0","-","1","2"," ","m","o","i","s">>, <<"1","3","-","2","4"," ","m","o","i","s">>, <<"2","5","-","4","8"," ","m","o","i","s">>,
                   <<"4","9","-","6","0"," ","m","o","i","s">>, <<"6","1","+"," ","m","o","i","s">>>>
\* bins=[0, 30, 50, 70, 90, 200], in hundredths
charges_bins == <<0, 3000, 5000, 7000, 9000, 20000>>
charges_labels == <<<<"0","-","3","0","$">>, <<"3","1","-","5","0","$">>, <<"5","1","-","7","0","$">>, <<"7","1","-","9","0","$">>, <<"9","1","+","$">>>>

\* pd.cut(right=True, include_lowest=True): the index of the interval
\* (bins[i], bins[i+1]] that holds v, the first one also holding bins[1];
\* 0 (a NaN) for a value outside [bins[1], bins[last]].
CutBin(v, bins) ==
    IF v < bins[1] \/ v > bins[Len(bins)] THEN 0
    ELSE IF v = bins[1] THEN 1
    ELSE CHOOSE i \in 1..(Len(bins) - 1) : bins[i] < v /\ v <= bins[i + 1]

\* .astype(str) of the category: its label, "nan" for a NaN
CutLabel(b, labels) == IF b = 0 THEN S(<<"n","a","n">>) ELSE S(labels[b])

\* pd.cut(...).astype(str) of one cell
Cut(c, bins, labels) ==
    IF IsNa(c) THEN S(<<"n","a","n">>) ELSE CutLabel(CutBin(c.n, bins), labels)

service_cols == <<"PhoneService", "MultipleLines", "InternetService",
                  "OnlineSecurity", "OnlineBackup", "DeviceProtection",
                  "TechSupport", "StreamingTV", "StreamingMovies">>

\* lambda x: 1 if str(x) in ["Yes", "DSL", "Fiber optic"] else 0
ServiceCount(c) ==
    IF PyStr(c) \in {<<"Y","e","s">>, <<"D","S","L">>, <<"F","i","b","e","r"," ","o","p","t","i","c">>} THEN 1 ELSE 0

total_services(r) ==
    SumSeq([i \in 1..Len(service_cols) |-> ServiceCount(r[service_cols[i]])])

\* (a == "Yes") | (b == "Yes") ...
AnyYes(r, cols) == B(IF \E c \in cols : r[c] = S(<<"Y","e","s">>) THEN 1 ELSE 0)

\* Twice the median of a sorted, non-empty sequence of numbers.
MedianTwice(v) ==
    IF Len(v) % 2 = 1 THEN 2 * v[(Len(v) + 1) \div 2]
    ELSE v[Len(v) \div 2] + v[(Len(v) \div 2) + 1]

NumbersOf(col) ==
    [i \in 1..Len(SelectSeq(col, LAMBDA c : ~IsNa(c))) |->
        SelectSeq(col, LAMBDA c : ~IsNa(c))[i].n]

\* df["MonthlyCharges"] > df["MonthlyCharges"].median(), NaN comparing False
IsHighValue(c, nums) ==
    IF IsNa(c) \/ nums = <<>> THEN B(0)
    ELSE B(IF 2 * c.n > MedianTwice(SortSeq(nums, <)) THEN 1 ELSE 0)

\* np.where(tenure > 0, TotalCharges / tenure, MonthlyCharges): the quotient
\* is kept exact as numerator (hundredths, or NaN) and denominator.
avg_monthly_spend(r) ==
    IF r.tenure.n > 0 THEN [num |-> r.TotalCharges, den |-> r.tenure.n]
    ELSE [num |-> r.MonthlyCharges, den |-> 1]

contract_risk(c) ==
    IF c = S(<<"M","o","n","t","h","-","t","o","-","m","o","n","t","h">>) THEN 3
    ELSE IF c = S(<<"O","n","e"," ","y","e","a","r">>) THEN 2
    ELSE IF c = S(<<"T","w","o"," ","y","e","a","r">>) THEN 1
    ELSE 0

\* Contract.map(contract_risk).fillna(2): a float column as soon as one
\* value was not a key of the dict
contract_risk_score(c, anyUnmapped) ==
    IF anyUnmapped
      THEN F(100 * (IF contract_risk(c) = 0 THEN 2 ELSE contract_risk(c)))
      ELSE I(contract_risk(c))

FeatureRow(r, nums, anyUnmapped) ==
    r @@ [tenure_group |-> Cut(r.tenure, tenure_bins, tenure_labels),
          monthly_charges_group |->
              Cut(r.MonthlyCharges, charges_bins, charges_labels),
          total_services |-> total_services(r),
          has_streaming |-> AnyYes(r, {"StreamingTV", "StreamingMovies"}),
          has_security |->
              AnyYes(r, {"OnlineSecurity", "OnlineBackup", "DeviceProtection"}),
          is_high_value |-> IsHighValue(r.MonthlyCharges, nums),
          avg_monthly_spend |-> avg_monthly_spend(r),
          contract_risk_score |-> contract_risk_score(r.Contract, anyUnmapped)]

add_engineered_features(X) ==
    [i \in 1..Len(X) |->
        FeatureRow(X[i], NumbersOf(Column(X, "MonthlyCharges")),
                   \E j \in 1..Len(X) : contract_risk(X[j].Contract) = 0)]


\* ---- create_churn_insights ----------------------------------------------
\* Characters in code point order, for the comparison of str keys.
Ascii == <<" ", "$", "+", "-", ".">> \o Digits \o Uppers \o Lowers

Ord(ch) == CHOOSE i \in 1..Len(Ascii) : Ascii[i] = ch

RECURSIVE StrLess(_, _)
StrLess(a, b) ==
    IF b = <<>> THEN FALSE
    ELSE IF a = <<>> THEN TRUE
    ELSE IF a[1] = b[1] THEN StrLess(Tail(a), Tail(b))
    ELSE Ord(a[1]) < Ord(b[1])

\* The order groupby puts the group keys in.
KeyLess(a, b) == IF a.k = "str" THEN StrLess(a.s, b.s) ELSE a.n < b.n

\* Churn.map({"Yes": True, "No": False}): NaN for any other value
YesNoBool(c) ==
    IF c = S(<<"Y","e","s">>) THEN B(1) ELSE IF c = S(<<"N","o">>) THEN B(0) ELSE NaN

\* .astype(bool)
AsTypeBool(c) ==
    IF c.k = "str" THEN B(IF c.s = <<>> THEN 0 ELSE 1)
    ELSE IF c.k = "none" THEN B(0)
    ELSE IF c.k = "nan" THEN B(1)
    ELSE B(IF c.n = 0 THEN 0 ELSE 1)

has_churned(c, dtype) == IF dtype = "object" THEN YesNoBool(c) ELSE AsTypeBool(c)

\* df_work: the record set with its has_churned column
WithHasChurned(X) ==
    [i \in 1..Len(X) |->
        X[i] @@ [has_churned |->
                    has_churned(X[i].Churn, ColDtype(Column(X, "Churn")))]]

\* round(): to the nearest integer, a tie to the even one
RoundPick(q, r, b) ==
    IF 2 * r < b THEN q
    ELSE IF 2 * r > b THEN q + 1
    ELSE IF q % 2 = 0 THEN q ELSE q + 1

RoundDiv(a, b) == RoundPick(a \div b, a % b, b)

\* round(scale * Series.mean(), 2), in hundredths, of numbers given in
\* hundredths (scale 1) or as 0/1 flags (scale 10000, for mean() * 100);
\* mean() skips NaN and is NaN when nothing is left
MeanOf(nums, scale) ==
    IF nums = <<>> THEN NaN ELSE F(RoundDiv(scale * SumSeq(nums), Len(nums)))

\* round(Series.mean(), 1), in hundredths
MeanTenths(nums) ==
    IF nums = <<>> THEN NaN ELSE F(10 * RoundDiv(10 * SumSeq(nums), Len(nums)))

\* One appended dict: the statistics of the rows G.
Insight(name, dim, cat, G, source) ==
    [insight_name |-> name,
     dimension |-> dim,
     category |-> cat,
     total_customers |-> Len(G),
     churned_customers |-> SumSeq(NumbersOf(Column(G, "has_churned"))),
     churn_rate |-> MeanOf(NumbersOf(Column(G, "has_churned")), 10000),
     avg_monthly_charges |-> MeanOf(NumbersOf(Column(G, "MonthlyCharges")), 1),
     avg_tenure |-> MeanTenths(NumbersOf(Column(G, "tenure"))),
     avg_total_charges |-> MeanOf(NumbersOf(Column(G, "TotalCharges")), 1),
     data_source |-> source]

\* The keys of df.groupby(col): the distinct non-null values, sorted.
GroupKeys(W, col) ==
    SortSeq(SetToSeq({c \in Range(Column(W, col)) : ~IsNa(c)}), KeyLess)

\* str(key), and "Senior" if senior == 1 else "Non-Senior" for SeniorCitizen
Category(dim, key) ==
    IF dim = "SeniorCitizen"
      THEN (IF key.k # "str" /\ key.n = (IF key.k = "float" THEN 100 ELSE 1)
              THEN <<"S","e","n","i","o","r">> ELSE <<"N","o","n","-","S","e","n","i","o","r">>)
      ELSE PyStr(key)

GroupInsights(W, name, dim, source, keys) ==
    [i \in 1..Len(keys) |->
        Insight(name, dim, Category(dim, keys[i]),
                SelectSeq(W, LAMBDA r : r[dim] = keys[i]), source)]

\* for key, group in df_work.groupby(dim): insights.append({...})
DimInsights(W, name, dim, source) ==
    IF W # <<>> /\ dim \notin DOMAIN W[1] THEN <<>>
    ELSE GroupInsights(W, name, dim, source, GroupKeys(W, dim))

InsightsOf(W, source) ==
    DimInsights(W, "churn_by_contract", "Contract", source)
    \o DimInsights(W, "churn_by_internet", "InternetService", source)
    \o DimInsights(W, "churn_by_payment", "PaymentMethod", source)
    \o DimInsights(W, "churn_by_tenure_group", "tenure_group", source)
    \o DimInsights(W, "churn_by_gender", "gender", source)
    \o DimInsights(W, "churn_by_senior", "SeniorCitizen", source)
    \o DimInsights(W, "churn_by_charges_group", "monthly_charges_group", source)
    \o <<Insight("overall_summary", "ALL", <<"T","o","t","a","l">>, W, source)>>

create_churn_insights(X, source) == InsightsOf(WithHasChurned(X), source)

\* ---- create_dim_customer, create_dim_service, create_dim_contract,
\* ---- create_fact_churn --------------------------------------------------
create_dim_customer(X, source) ==
    [i \in 1..Len(X) |->
        [customer_id |-> X[i].customerID,
         gender |-> X[i].gender,
         is_senior_citizen |-> AsTypeBool(X[i].SeniorCitizen),
         has_partner |-> YesNoBool(X[i].Partner),
         has_dependents |-> YesNoBool(X[i].Dependents),
         data_source |-> source]]

create_dim_service(X) ==
    [i \in 1..Len(X) |->
        [customer_id |-> X[i].customerID,
         phone_service |-> YesNoBool(X[i].PhoneService),
         multiple_lines |-> X[i].MultipleLines,
         internet_service |-> X[i].InternetService,
         online_security |-> X[i].OnlineSecurity,
         online_backup |-> X[i].OnlineBackup,
         device_protection |-> X[i].DeviceProtection,
         tech_support |-> X[i].TechSupport,
         streaming_tv |-> X[i].StreamingTV,
         streaming_movies |-> X[i].StreamingMovies]]

create_dim_contract(X) ==
    [i \in 1..Len(X) |->
        [customer_id |-> X[i].customerID,
         contract_type |-> X[i].Contract,
         paperless_billing |-> YesNoBool(X[i].PaperlessBilling),
         payment_method |-> X[i].PaymentMethod]]

\* df.get("CustomerFeedback", pd.Series(dtype=str)) without that column is an
\* empty Series: the frame takes the index of the other columns and the
\* customer_feedback of every row is NaN. Here it makes the frame empty.
create_fact_churn_emptyWithoutFeedback(X, source, has_feedback) ==
    IF ~has_feedback THEN <<>>
    ELSE [i \in 1..Len(X) |->
            [tenure_months |-> X[i].tenure,
             monthly_charges |-> X[i].MonthlyCharges,
             total_charges |-> X[i].TotalCharges,
             has_churned |-> YesNoBool(X[i].Churn),
             customer_feedback |-> X[i].CustomerFeedback,
             data_source |-> source]]

create_fact_churn(X, source, has_feedback) ==
    [i \in 1..Len(X) |->
        [tenure_months |-> X[i].tenure,
         monthly_charges |-> X[i].MonthlyCharges,
         total_charges |-> X[i].TotalCharges,
         has_churned |-> YesNoBool(X[i].Churn),
         customer_feedback |->
             IF has_feedback THEN X[i].CustomerFeedback ELSE NaN,
         data_source |-> source]]


\* ---- bounded inputs: cleaned record sets --------------------------------

GoldBase ==
    [customerID |-> S(<<"C","1">>), gender |-> S(<<"M","a","l","e">>),
     SeniorCitizen |-> I(0), Partner |-> S(<<"Y","e","s">>), Dependents |-> S(<<"N","o">>),
     tenure |-> I(5), PhoneService |-> S(<<"Y","e","s">>),
     MultipleLines |-> S(<<"N","o">>), InternetService |-> S(<<"D","S","L">>),
     OnlineSecurity |-> S(<<"N","o">>), OnlineBackup |-> S(<<"N","o">>),
     DeviceProtection |-> S(<<"N","o">>), TechSupport |-> S(<<"N","o">>),
     StreamingTV |-> S(<<"N","o">>), StreamingMovies |-> S(<<"N","o">>),
     Contract |-> S(<<"M","o","n","t","h","-","t","o","-","m","o","n","t","h">>), PaperlessBilling |-> S(<<"Y","e","s">>),
     PaymentMethod |-> S(<<"M","a","i","l","e","d"," ","c","h","e","c","k">>),
     MonthlyCharges |-> F(7000), TotalCharges |-> F(35000),
     Churn |-> S(<<"N","o">>), CustomerFeedback |-> S(<<"o","k">>)]


\* Single rows that vary one group of columns of GoldBase over its domain.
GoldDeepRows ==
    {[GoldBase EXCEPT !.tenure = t] :
        t \in {I(-3), I(0), I(1), I(12), I(13), I(24), I(25), I(48), I(49),
               I(60), I(61), I(72), I(100), I(101), I(150)}}
    \cup {[GoldBase EXCEPT !.MonthlyCharges = m, !.TotalCharges = x] :
            m \in {F(0), F(2985), F(3000), F(3001), F(9000), F(11875),
                   F(20000), F(25000), NaN},
            x \in {F(35000), NaN}}
    \cup {[GoldBase EXCEPT !.InternetService = a, !.StreamingTV = b,
                           !.OnlineBackup = b, !.PhoneService = d] :
            a \in {S(<<"F","i","b","e","r"," ","o","p","t","i","c">>), S(<<"N","o">>)},
            b \in {S(<<"Y","e","s">>), S(<<"N","o"," ","i","n","t","e","r","n","e","t"," ","s","e","r","v","i","c","e">>)},
            d \in {S(<<"Y","e","s">>), S(<<"N","o">>), S(<<"M","a","y","b","e">>)}}
    \cup {[GoldBase EXCEPT !.gender = g, !.Partner = q, !.PaperlessBilling = q] :
            g \in {S(<<"F","e","m","a","l","e">>), NaN}, q \in {S(<<"N","o">>), S(<<"M","a","y","b","e">>)}}

\* Rows of the multi-row record sets: contracts (a null one included), churn
\* flags (one that is neither "Yes" nor "No" included) and senior flags.
GoldWideRows ==
    {[GoldBase EXCEPT !.Contract = c, !.Churn = h] :
        c \in {S(<<"M","o","n","t","h","-","t","o","-","m","o","n","t","h">>), S(<<"T","w","o"," ","y","e","a","r">>), NaN},
        h \in {S(<<"Y","e","s">>), S(<<"N","o">>), S(<<"M","a","y","b","e">>)}}
    \cup {[GoldBase EXCEPT !.SeniorCitizen = s, !.tenure = I(30),
                           !.MonthlyCharges = F(2000), !.TotalCharges = NaN,
                           !.Churn = S(<<"Y","e","s">>)] :
            s \in {I(0), I(1), I(2)}}

\* A cleaned record set holds every customerID once: row i is customer Ci.
KeyedRows(X) ==
    [i \in 1..Len(X) |-> [X[i] EXCEPT !.customerID = S(<<"C">> \o NatStr(i))]]

GoldInputs ==
    {<<r>> : r \in GoldDeepRows}
    \cup {KeyedRows(X) : X \in UNION {[1..n -> GoldWideRows] : n \in 0..MaxGoldRows}}

InitGold ==
    /\ DagIdle
    /\ CleanIdle
    /\ cleaned \in GoldInputs
    /\ feedback \in BOOLEAN
    /\ enriched = <<>>
    /\ insights = <<>>
    /\ gold = <<>>
    /\ fstage = "cleaned"
    /\ gstage = "cleaned"
    /\ WarehouseIdle
    /\ JsonIdle

\* df_feat = add_engineered_features(df)
AddFeatures ==
    /\ fstage = "cleaned"
    /\ enriched' = add_engineered_features(cleaned)
    /\ fstage' = "enriched"
    /\ UNCHANGED <<cleaned, feedback, insights, gold, gstage>>
    /\ UNCHANGED <<dagvars, cleanvars, dbvars, jsonvars>>

\* insights = create_churn_insights(df_feat, source=source)
CreateInsights ==
    /\ fstage = "enriched"
    /\ \E source \in {"csv", "json"} : insights' = create_churn_insights(enriched, source)
    /\ fstage' = "aggregated"
    /\ UNCHANGED <<cleaned, feedback, enriched, gold, gstage>>
    /\ UNCHANGED <<dagvars, cleanvars, dbvars, jsonvars>>

\* the four projections of the cleaned record set
CreateGold ==
    /\ gstage = "cleaned"
    /\ \E source \in {"csv", "json"} :
          gold' = [dim_customer |-> create_dim_customer(cleaned, source),
                   dim_service |-> create_dim_service(cleaned),
                   dim_contract |-> create_dim_contract(cleaned),
                   fact_churn |-> create_fact_churn(cleaned, source, feedback)]
    /\ gstage' = "projected"
    /\ UNCHANGED <<cleaned, feedback, enriched, insights, fstage>>
    /\ UNCHANGED <<dagvars, cleanvars, dbvars, jsonvars>>

NextGold == AddFeatures \/ CreateInsights \/ CreateGold

SpecGold == InitGold /\ [][NextGold]_vars

(***************************************************************************)
(*               Properties of the Gold functions (C13 - C17)              *)
(***************************************************************************)

\* The label said to belong to a tenure >= 0.
ClaimedTenureGroup(t) ==
    IF t <= 12 THEN <<"0","-","1","2"," ","m","o","i","s">>
    ELSE IF t <= 24 THEN <<"1","3","-","2","4"," ","m","o","i","s">>
    ELSE IF t <= 48 THEN <<"2","5","-","4","8"," ","m","o","i","s">>
    ELSE IF t <= 60 THEN <<"4","9","-","6","0"," ","m","o","i","s">>
    ELSE <<"6","1","+"," ","m","o","i","s">>

\* C13 (as stated): every row whose tenure is an integer >= 0 gets the one
\* of the five tenure_group labels whose range 0..12, 13..24, 25..48, 49..60
\* or 61 and more holds its tenure.
C13_TenureGroupTotal ==
    fstage # "cleaned" =>
        \A i \in 1..Len(enriched) :
            (enriched[i].tenure.k = "int" /\ enriched[i].tenure.n >= 0) =>
                enriched[i].tenure_group = S(ClaimedTenureGroup(enriched[i].tenure.n))


\* The rows of an insight table with the given dimension.
OfDimension(T, dim) == SelectSeq(T, LAMBDA r : r.dimension = dim)

\* C14 (as stated): the total_customers of the rows with dimension
\* "Contract" add up to the number of input rows, rows with a null Contract
\* included.
C14_ContractGroupsCoverInput ==
    fstage = "aggregated" =>
        SumSeq(Column(OfDimension(insights, "Contract"), "total_customers"))
            = Len(enriched)

\* C15 (as stated): there is exactly one overall_summary row; it has
\* dimension "ALL", category "Total", total_customers = the number of input
\* rows and churn_rate = 100 * (rows with Churn = "Yes") / (all rows),
\* rounded to 2 decimals, whatever the other Churn values are.
C15_OverallSummary ==
    fstage = "aggregated" =>
        /\ Len(SelectSeq(insights,
                         LAMBDA r : r.insight_name = "overall_summary")) = 1
        /\ \A i \in 1..Len(insights) :
              insights[i].insight_name = "overall_summary" =>
                /\ insights[i].dimension = "ALL"
                /\ insights[i].category = <<"T","o","t","a","l">>
                /\ insights[i].total_customers = Len(enriched)
                /\ Len(enriched) > 0 =>
                      insights[i].churn_rate =
                          F(RoundDiv(10000 * Len(SelectSeq(enriched,
                                LAMBDA r : r.Churn = S(<<"Y","e","s">>))),
                              Len(enriched)))

GroupDimensions ==
    {"Contract", "InternetService", "PaymentMethod", "tenure_group", "gender",
     "SeniorCitizen", "monthly_charges_group"}

\* C16 (as stated): no two rows of one output share (insight_name, dimension,
\* category, data_source), and every group-by dimension has exactly one row
\* per distinct category observed in its column, SeniorCitizen included.
C16_InsightKeysUnique ==
    fstage = "aggregated" =>
        /\ \A i \in 1..Len(insights) : \A j \in 1..Len(insights) :
              (i # j) =>
                  <<insights[i].insight_name, insights[i].dimension,
                    insights[i].category, insights[i].data_source>>
                  # <<insights[j].insight_name, insights[j].dimension,
                      insights[j].category, insights[j].data_source>>
        /\ \A dim \in GroupDimensions :
              Len(OfDimension(insights, dim)) =
                  Cardinality({Category(dim, c) :
                      c \in {x \in Range(Column(enriched, dim)) : ~IsNa(x)}})


\* A Yes/No cell and the boolean it is said to project to.
ProjectsTo(c, b) ==
    /\ c = S(<<"Y","e","s">>) => b = B(1)
    /\ c = S(<<"N","o">>) => b = B(0)
    /\ c \notin {S(<<"Y","e","s">>), S(<<"N","o">>)} => IsNa(b)

\* C17: each of the four projections returns one row per input row, in
\* input order, also create_fact_churn without a CustomerFeedback column;
\* a Yes/No value other than "Yes" and "No" gives a null boolean.
C17_ProjectionsKeepRows ==
    gstage = "projected" =>
        /\ \A tbl \in {"dim_customer", "dim_service", "dim_contract", "fact_churn"} :
              Len(gold[tbl]) = Len(cleaned)
        /\ \A i \in 1..Len(cleaned) :
              /\ gold.dim_customer[i].customer_id = cleaned[i].customerID
              /\ gold.dim_service[i].customer_id = cleaned[i].customerID
              /\ gold.dim_contract[i].customer_id = cleaned[i].customerID
              /\ gold.dim_contract[i].contract_type = cleaned[i].Contract
              /\ gold.fact_churn[i].tenure_months = cleaned[i].tenure
              /\ gold.fact_churn[i].monthly_charges = cleaned[i].MonthlyCharges
              /\ gold.fact_churn[i].total_charges = cleaned[i].TotalCharges
              /\ ProjectsTo(cleaned[i].Churn, gold.fact_churn[i].has_churned)
              /\ ProjectsTo(cleaned[i].Partner, gold.dim_customer[i].has_partner)
              /\ ProjectsTo(cleaned[i].Dependents, gold.dim_customer[i].has_dependents)
              /\ ProjectsTo(cleaned[i].PhoneService, gold.dim_service[i].phone_service)
              /\ ProjectsTo(cleaned[i].PaperlessBilling,
                            gold.dim_contract[i].paperless_billing)

C17_Witness ==
    /\ gstage = "projected" /\ ~feedback
    /\ Len(cleaned) = 2 /\ Len(gold.fact_churn) = 2
    /\ cleaned[1].Contract # cleaned[2].Contract
    /\ cleaned[2].Churn = S(<<"M","a","y","b","e">>)
    /\ IsNa(gold.fact_churn[2].has_churned)
    /\ gold.fact_churn[1].has_churned = B(1)


(***************************************************************************)
(*   Part IV : task_load_warehouse, the loaders of                         *)
(*             src/load/load_to_warehouse.py and insert_dataframe of       *)
(*             src/utils/db_client.py, statement by statement              *)
(***************************************************************************)

\* The insert_dataframe calls of one execution of task_load_warehouse, in
\* order: the loader call each belongs to (one connection per loader call)
\* and its table.
Loads ==
    <<[call |-> "load_csv_to_staging",  table |-> "staging.telco_churn_raw"],
      [call |-> "load_json_to_staging", table |-> "staging.telco_synthetic_raw"],
      [call |-> "load_to_dimensions",   table |-> "warehouse.dim_customer"],
      [call |-> "load_to_dimensions",   table |-> "warehouse.dim_service"],
      [call |-> "load_to_dimensions",   table |-> "warehouse.dim_contract"],
      [call |-> "load_to_facts",        table |-> "warehouse.fact_churn"],
      [call |-> "load_insights(csv)",   table |-> "warehouse.churn_insights"],
      [call |-> "load_insights(json)",  table |-> "warehouse.churn_insights"],
      [call |-> "load_features(csv)",   table |-> "warehouse.customer_features"],
      [call |-> "load_features(json)",  table |-> "warehouse.customer_features"]>>

\* Whether the loader of the current insert_dataframe call makes another one.
LoaderGoesOn ==
    IF wstep < Len(Loads) THEN Loads[wstep + 1].call = Loads[wstep].call
    ELSE FALSE

InitWarehouse ==
    /\ DagIdle
    /\ CleanIdle
    /\ GoldIdle
    /\ WarehouseIdle
    /\ JsonIdle

\* insert_dataframe(conn, table_name, df) is entered with some record set.
EnterInsert ==
    /\ ipc' = "entry"
    /\ empty' \in BOOLEAN
    /\ ops' = 0
    /\ cursor' = "none"

\* conn = get_db_connection(), then the loader's first insert_dataframe call
Connect ==
    /\ wstatus = "running" /\ ipc = "connect"
    /\ conn' = "open"
    /\ EnterInsert
    /\ UNCHANGED <<wstep, wstatus, pending, committed>>
    /\ UNCHANGED <<dagvars, cleanvars, goldvars, jsonvars>>

\* if df.empty: print(...); return
SkipEmpty ==
    /\ ipc = "entry" /\ empty
    /\ ipc' = "returned"
    /\ UNCHANGED <<wstep, wstatus, empty, ops, cursor, conn, pending, committed>>
    /\ UNCHANGED <<dagvars, cleanvars, goldvars, jsonvars>>

\* cursor = conn.cursor()
OpenCursor ==
    /\ ipc = "entry" /\ ~empty
    /\ cursor' = "open"
    /\ ops' = ops + 1
    /\ ipc' = "execute"
    /\ UNCHANGED <<wstep, wstatus, empty, conn, pending, committed>>
    /\ UNCHANGED <<dagvars, cleanvars, goldvars, jsonvars>>

\* cursor.executemany(query, values) returns: the rows are in the transaction
ExecuteMany ==
    /\ ipc = "execute"
    /\ pending' = pending \cup {wstep}
    /\ ops' = ops + 1
    /\ ipc' = "commit"
    /\ UNCHANGED <<wstep, wstatus, empty, cursor, conn, committed>>
    /\ UNCHANGED <<dagvars, cleanvars, goldvars, jsonvars>>

\* cursor.executemany(query, values) raises, after none or some of the rows
ExecuteRaises ==
    /\ ipc = "execute"
    /\ pending' \in {pending, pending \cup {wstep}}
    /\ ops' = ops + 1
    /\ ipc' = "except"
    /\ UNCHANGED <<wstep, wstatus, empty, cursor, conn, committed>>
    /\ UNCHANGED <<dagvars, cleanvars, goldvars, jsonvars>>

\* conn.commit() returns
Commit ==
    /\ ipc = "commit"
    /\ committed' = committed \cup pending
    /\ pending' = {}
    /\ ops' = ops + 1
    /\ ipc' = "finally_ok"
    /\ UNCHANGED <<wstep, wstatus, empty, cursor, conn>>
    /\ UNCHANGED <<dagvars, cleanvars, goldvars, jsonvars>>

\* conn.commit() raises
CommitRaises ==
    /\ ipc = "commit"
    /\ ops' = ops + 1
    /\ ipc' = "except"
    /\ UNCHANGED <<wstep, wstatus, empty, cursor, conn, pending, committed>>
    /\ UNCHANGED <<dagvars, cleanvars, goldvars, jsonvars>>

\* The except clause without its conn.rollback().
Rollback_skipped ==
    /\ ipc = "except"
    /\ ops' = ops + 1
    /\ ipc' = "finally_err"
    /\ UNCHANGED <<wstep, wstatus, empty, cursor, conn, pending, committed>>
    /\ UNCHANGED <<dagvars, cleanvars, goldvars, jsonvars>>

\* except Exception: conn.rollback(); print(...); raise
Rollback ==
    /\ ipc = "except"
    /\ pending' = {}
    /\ ops' = ops + 1
    /\ ipc' = "finally_err"
    /\ UNCHANGED <<wstep, wstatus, empty, cursor, conn, committed>>
    /\ UNCHANGED <<dagvars, cleanvars, goldvars, jsonvars>>

\* finally: cursor.close(), then the return or the pending raise
CloseCursor ==
    /\ ipc \in {"finally_ok", "finally_err"}
    /\ cursor' = "closed"
    /\ ipc' = IF ipc = "finally_ok" THEN "returned" ELSE "raised"
    /\ UNCHANGED <<wstep, wstatus, empty, ops, conn, pending, committed>>
    /\ UNCHANGED <<dagvars, cleanvars, goldvars, jsonvars>>

\* the next insert_dataframe call of the same loader, on the same connection
NextInsert ==
    /\ ipc = "returned" /\ LoaderGoesOn
    /\ wstep' = wstep + 1
    /\ EnterInsert
    /\ UNCHANGED <<wstatus, conn, pending, committed>>
    /\ UNCHANGED <<dagvars, cleanvars, goldvars, jsonvars>>

\* finally: conn.close() of a loader that returns; the next loader follows,
\* or task_load_warehouse returns
LoaderReturns ==
    /\ ipc = "returned" /\ ~LoaderGoesOn
    /\ conn' = "closed"
    /\ pending' = {}
    /\ IF wstep < Len(Loads)
         THEN wstep' = wstep + 1 /\ ipc' = "connect" /\ wstatus' = wstatus
         ELSE wstep' = wstep /\ ipc' = "end" /\ wstatus' = "done"
    /\ UNCHANGED <<empty, ops, cursor, committed>>
    /\ UNCHANGED <<dagvars, cleanvars, goldvars, jsonvars>>

\* finally: conn.close() of a loader whose insert_dataframe raised; the
\* exception leaves task_load_warehouse
LoaderRaises ==
    /\ ipc = "raised"
    /\ conn' = "closed"
    /\ pending' = {}
    /\ ipc' = "end"
    /\ wstatus' = "failed"
    /\ UNCHANGED <<wstep, empty, ops, cursor, committed>>
    /\ UNCHANGED <<dagvars, cleanvars, goldvars, jsonvars>>

NextWarehouse ==
    \/ Connect \/ SkipEmpty \/ OpenCursor \/ ExecuteMany \/ ExecuteRaises
    \/ Commit \/ CommitRaises \/ Rollback \/ CloseCursor
    \/ NextInsert \/ LoaderReturns \/ LoaderRaises

SpecWarehouse == InitWarehouse /\ [][NextWarehouse]_vars

(***************************************************************************)
(*              Properties of the warehouse load (C18 - C19)               *)
(***************************************************************************)

\* The state in which a call of insert_dataframe may be left.
LeftAsClaimed ==
    /\ (ipc = "returned" /\ empty) =>
          ops = 0 /\ cursor = "none" /\ wstep \notin (pending \cup committed)
    /\ (ipc = "returned" /\ ~empty) =>
          cursor = "closed" /\ wstep \in committed /\ pending = {}
    /\ ipc = "raised" =>
          ~empty /\ cursor = "closed" /\ pending = {} /\ wstep \notin committed

\* C18: insert_dataframe on an empty record set makes no database operation
\* and returns; when the insert of a non-empty one fails, the transaction is
\* rolled back so that none of its rows is committed, the exception leaves
\* the function, and the cursor is closed whether the call returns or raises.
C18_InsertDataframe ==
    [][/\ LeftAsClaimed'
       /\ ipc = "except" => (ipc' = "finally_err" /\ pending' = {})
       /\ ipc = "finally_err" => ipc' = "raised"
       /\ ipc = "raised" => wstatus' = "failed"]_vars

C18_Witness ==
    /\ ipc = "raised" /\ ops = 4 /\ cursor = "closed"
    /\ wstep = 4 /\ committed = {3} /\ pending = {}

\* C19 (as stated): once task_load_warehouse has failed on a relational
\* write, none of the rows that this execution wrote, to whatever table,
\* remains committed.
C19_FailureLeavesNothing ==
    wstatus = "failed" => committed = {}


(***************************************************************************)
(*                 Completion of a run without exceptions (C20)            *)
(***************************************************************************)

\* The scheduler starts (or marks upstream_failed) every task whose upstream
\* tasks are finished, re-queues a task that is up for retry, and a worker
\* runs the statements of a started callable to its end.
Fairness ==
    \A t \in Tasks :
        /\ WF_vars(Start(t))
        /\ WF_vars(UpstreamFailed(t))
        /\ WF_vars(Retry(t))
        /\ WF_vars(Exec(t))
        /\ WF_vars(Succeed(t))

SpecFair == InitDag /\ [][Next]_vars /\ Fairness

\* C20: a run in which no callable raises reaches the state where each of
\* the eight tasks, load_gold and load_warehouse included, has succeeded.
C20_NoRaiseRunCompletes ==
    <>(nfail > 0 \/ \A t \in Tasks : state[t] = "success")

C20_Witness ==
    /\ nfail = 0
    /\ \A t \in Tasks : state[t] = "success"
    /\ \A t \in Tasks : tries[t] = 1


(***************************************************************************)
(*   Part V : the JSON branch: task_extract_json stringifies the object    *)
(*            columns, task_clean_json cleans what it wrote                *)
(***************************************************************************)

\* df[col].astype(str) for every column whose dtype is object; a column of
\* another dtype is written as it is
AsTypeStr(X) ==
    [i \in 1..Len(X) |->
        [col \in DOMAIN X[i] |->
            IF ColDtype(Column(X, col)) = "object" THEN S(PyStr(X[i][col]))
            ELSE X[i][col]]]

InitJson ==
    /\ DagIdle
    /\ df \in Inputs
    /\ out = [ok |-> TRUE, rows |-> df]
    /\ prev = <<>>
    /\ calls = 0
    /\ GoldIdle
    /\ WarehouseIdle
    /\ jraw = <<>>
    /\ jout = [ok |-> TRUE, rows |-> <<>>]
    /\ jstage = "raw"

\* task_extract_json: the extracted frame, stringified, goes to
\* /tmp/df_json_raw.parquet (str, int64, float64 and bool columns are read
\* back from parquet as written)
ExtractJson ==
    /\ jstage = "raw"
    /\ jraw' = AsTypeStr(df)
    /\ jstage' = "extracted"
    /\ UNCHANGED jout
    /\ UNCHANGED <<dagvars, cleanvars, goldvars, dbvars>>

\* task_clean_json: clean_data(pd.read_parquet(raw_path), source="json")
CleanJson ==
    /\ jstage = "extracted"
    /\ jout' = clean_data(jraw)
    /\ jstage' = "cleaned"
    /\ UNCHANGED jraw
    /\ UNCHANGED <<dagvars, cleanvars, goldvars, dbvars>>

NextJson == ExtractJson \/ CleanJson \/ Clean

SpecJson == InitJson /\ [][NextJson]_vars

(***************************************************************************)
(*                 Property of the JSON branch (C21)                       *)
(***************************************************************************)

ComparedCols ==
    YesNoCols \cup {"SeniorCitizen", "tenure", "MonthlyCharges", "TotalCharges"}

\* C21 (as stated): cleaning the stringified record set gives, row for row,
\* the same Yes/No columns, SeniorCitizen, tenure, MonthlyCharges and
\* TotalCharges as cleaning the record set itself.
C21_StringifyKeepsCleaning ==
    (jstage = "cleaned" /\ calls = 1) =>
        /\ jout.ok = out.ok
        /\ out.ok =>
              /\ Len(jout.rows) = Len(out.rows)
              /\ \A k \in 1..Len(out.rows) : \A col \in ComparedCols :
                    jout.rows[k][col] = out.rows[k][col]

====
